---- MODULE Spec2Model ----
(***************************************************************************)
(* Model of pkg/kafka/queue_receiver.go: the KafkaReceiver lifecycle       *)
(* (NewKafkaReceiver, Connect, ConnectCustomRetry, startConsumer,          *)
(* Shutdown) and the per-message retry / dead-letter loop of               *)
(* kafkaMsgProcessor, one callback at a time per partition, together with  *)
(* the consumer that reads the outbound channel and calls Ack / Nack.      *)
(***************************************************************************)
EXTENDS Integers, Sequences, FiniteSets, Bags, TLC

(* ---------------------------- bounds ----------------------------------- *)
\* largest maxRetries passed to ConnectCustomRetry
MaxRetriesBound == 1
\* messages the transport delivers per partition
NumMsgs == 2
\* largest capacity of the caller's outbound channel (0 = unbuffered)
MaxOutCap == 1
\* most calls of Ack / Nack a consumer makes for a message beyond one per
\* received delivery
MaxExtraCalls == 1

(* ------------------------ program constants ---------------------------- *)
\* Connect: maxRetries argument
DefaultMaxRetries == 3
\* Connect: base delay of the default backoff, in milliseconds
DefaultBaseDelay == 1000

\* partitions (one transport goroutine each), payloads and topic names
Parts == {1, 2}
Payloads == {<<104, 105>>, <<0>>}
Topics == {"in", "in.errors"}
CustomBackoffs == {"zero", "lin"}

VARIABLES
    topic,        \* q.topic
    errorTopic,   \* q.errorTopic
    shutdown,     \* q.shutdown: "nil" or "cancel"
    runLoop,      \* the goroutine of processor.Run: "none", "running", "cancelled"
    connectRet,   \* what the last Connect call gave its caller
    procErr,      \* the last Connect call saw goka.NewProcessor fail
    shutdownRan,  \* the last Connect call invoked q.Shutdown
    panicked,     \* a nil function was called: the goroutine panicked
    maxRetries,   \* maxRetries captured by the processor closure
    backoff,      \* retryExpirationCalc captured by the processor closure
    output,       \* buffer of the outbound channel (msgs)
    outCap,       \* its capacity
    extraCalls,   \* calls the consumer makes for a message beyond one per delivery
    msgNo,        \* per partition: callbacks the transport has started
    pc,           \* per partition: position of the callback
    data,         \* per partition: local data
    retries,      \* per partition: local retries
    result,       \* per partition: buffer of the local channel result
    sendq,        \* per partition: senders blocked on result
    remaining,    \* per partition: time left on the timer
    pub,          \* per partition: the emitter pub
    budget,       \* per partition: calls the consumer may still make
    dlq,          \* records the dead-letter topic(s) received
    assigned,     \* partitions the transport assigned to this group member
    logLen,       \* messages in the log of each partition
    probe,        \* an evaluation of Connect's retry-time function
    h             \* per partition: history of the current callback

recvVars == <<topic, errorTopic, shutdown, runLoop, connectRet, procErr,
              shutdownRan, panicked, maxRetries, backoff>>
chanVars == <<output, outCap, extraCalls, assigned, logLen, probe>>
procVars == <<msgNo, pc, data, retries, result, sendq, remaining, pub>>
vars == <<topic, errorTopic, shutdown, runLoop, connectRet, procErr,
          shutdownRan, panicked, maxRetries, backoff, output, outCap,
          extraCalls, assigned, logLen, probe, msgNo, pc, data, retries, result, sendq,
          remaining, pub, budget, dlq, h>>

(* ---------------------------- helpers ---------------------------------- *)
Pow2(n) == 2 ^ n

Min(a, b) == IF a < b THEN a ELSE b

\* NewKafkaReceiver: errorTopic: topic + ".errors"
ErrorTopic(t) == t \o ".errors"

\* variant: a default delay that grows linearly
BackoffLinear(f, n) ==
    CASE f = "exp" -> DefaultBaseDelay * (n + 1)
      [] f = "lin" -> n + 1
      [] OTHER -> 0

\* the retry-time functions: Connect's default and two injected ones
Backoff(f, n) ==
    CASE f = "exp" -> DefaultBaseDelay * Pow2(n)
      [] f = "lin" -> n + 1
      [] OTHER -> 0

\* variant: a channel without the slot for the first delivery
ResultCapNoSlack(k) == k

\* make(chan bool, maxRetries+1)
ResultCap(k) == k + 1

\* variant: a timer that never waits
TimerDurationNoWait(d) == 0

\* time.NewTimer(d): a non-positive duration fires at once
TimerDuration(d) == IF d < 0 THEN 0 ELSE d

\* variant: the payload wrapped in an envelope byte
DeadLetterRecordEnvelope(t, d) == [topic |-> t, key |-> "", value |-> <<1>> \o d]

\* pub.EmitSync("", data) on the emitter of Stream(errorTopic)
DeadLetterRecord(t, d) == [topic |-> t, key |-> "", value |-> d]

\* history of a callback that has just been invoked with payload d
FreshHist(d) ==
    [orig |-> d, pushes |-> 0, received |-> 0, acked |-> FALSE, consumed |-> 0,
     sleepLog |-> <<>>, elapsed |-> 0, emitted |-> <<>>, created |-> 0,
     finished |-> 0, emitTries |-> 0, ignored |-> FALSE, stale |-> FALSE,
     answers |-> <<>>, pubRes |-> "none", outcome |-> "none"]

\* Go's int has 32 bits on 386 and arm, 64 bits on amd64 and arm64; an int
\* is modelled by the set of the positions of its one bits (two's complement)
IntWidths == {32, 64}

BitsOf(x) == {i \in 0..30 : (x \div Pow2(i)) % 2 = 1}

MaxOf(S) == CHOOSE x \in S : \A y \in S : y <= x

IntNegative(A, w) == (w - 1) \in A

\* A < B for two ints of w bits
IntLess(A, B, w) ==
    IF IntNegative(A, w) # IntNegative(B, w) THEN IntNegative(A, w)
    ELSE A # B /\ MaxOf((A \ B) \cup (B \ A)) \in B

\* the value of an int that fits 31 bits
RECURSIVE IntValue(_)
IntValue(A) == IF A = {} THEN 0 ELSE Pow2(MaxOf(A)) + IntValue(A \ {MaxOf(A)})

\* line 41: 1000 * int(math.Pow(2.0, float64(retry))) in an int of w bits,
\* for a retry whose power of two the int can hold (retry <= w - 2): the
\* product is the base shifted left, and it wraps
DefaultDelayBits(n, w) == {i + n : i \in BitsOf(DefaultBaseDelay)} \cap 0..(w - 1)

\* the evaluations of the function on n and n + 1, not yet made
Probes ==
    UNION {{[n |-> n, w |-> w, done |-> FALSE, delay |-> {}, next |-> {}] :
               n \in 0..(w - 3)} : w \in IntWidths}

\* no evaluation of the retry-time function is under way
NoProbe == [n |-> 0, w |-> 0, done |-> TRUE, delay |-> {}, next |-> {}]

(* ------------------------------ Init ----------------------------------- *)
\* the state after NewKafkaReceiver(brokers, group, topic), before any
\* Connect, with a consumer that makes up to some number in extra of calls
\* beyond one per delivery and the partitions parts assigned by the broker
InitOf(extra, parts, len) ==
    /\ topic \in Topics
    /\ errorTopic = ErrorTopic(topic)
    /\ shutdown = "nil"
    /\ runLoop = "none"
    /\ connectRet = "none"
    /\ procErr = FALSE
    /\ shutdownRan = FALSE
    /\ panicked = FALSE
    /\ maxRetries = 0
    /\ backoff = "zero"
    /\ output = <<>>
    /\ outCap \in 0..MaxOutCap
    /\ extraCalls \in extra
    /\ assigned = parts
    /\ logLen = len
    /\ msgNo = [p \in Parts |-> 0]
    /\ pc = [p \in Parts |-> "idle"]
    /\ data = [p \in Parts |-> <<>>]
    /\ retries = [p \in Parts |-> 0]
    /\ result = [p \in Parts |-> <<>>]
    /\ sendq = [p \in Parts |-> <<>>]
    /\ remaining = [p \in Parts |-> 0]
    /\ pub = [p \in Parts |-> "none"]
    /\ budget = [p \in Parts |-> 0]
    /\ dlq = EmptyBag
    /\ h = [p \in Parts |-> FreshHist(<<>>)]

\* a group member that is assigned one partition
InitWith(extra) == InitOf(extra, {1}, NumMsgs) /\ probe = NoProbe

\* the consumer keeps the contract: one call of Ack or Nack per delivery
\* at most
Init == InitWith({0})

\* the consumer may also call Ack / Nack more often than once per delivery
\* (a receiver of the topic "in" with two messages in the log of its
\* partition: the second meets what the first left behind)
InitAny ==
    InitOf(0..MaxExtraCalls, {1}, 2) /\ probe = NoProbe /\ topic = "in"

\* a conforming consumer behind a receiver of the topic "in" that is
\* assigned both partitions, each with one message in its log
InitPar == InitOf({0}, Parts, 1) /\ probe = NoProbe /\ topic = "in"

\* either such a receiver, or a member without partitions on which
\* Connect's retry-time function is evaluated
InitDefault ==
    \/ Init
    \/ InitOf({0}, {}, NumMsgs) /\ probe \in Probes /\ topic = "in" /\ outCap = 0

(* ------------------------- receiver lifecycle -------------------------- *)
\* q.shutdown(): calling the nil function panics, the cancel function
\* cancels the context of the run loop
ShutdownPanics == shutdown = "nil"

AfterCancel(rl) == IF rl = "running" THEN "cancelled" ELSE rl

\* startConsumer when goka.NewProcessor succeeds: q.shutdown = cancel and
\* go processor.Run(ctx)
startConsumerOk(k, f) ==
    /\ shutdown' = "cancel"
    /\ runLoop' = "running"
    /\ maxRetries' = k
    /\ backoff' = f

\* startConsumer when goka.NewProcessor fails: return err, nothing stored
startConsumerErr == UNCHANGED <<shutdown, maxRetries, backoff>>

\* ConnectCustomRetry(msgs, done, maxRetries, retryFuncTime, logger).
\* A receiver starts at most one processor in this model.
ConnectCustomRetry(k, f) ==
    /\ ~panicked
    /\ \E ok \in BOOLEAN :
         IF ok
         THEN /\ runLoop = "none"
              /\ startConsumerOk(k, f)
              /\ connectRet' = "nil"
              /\ procErr' = FALSE
              /\ shutdownRan' = FALSE
              /\ UNCHANGED panicked
         ELSE /\ startConsumerErr
              /\ procErr' = TRUE
              /\ shutdownRan' = TRUE
              \* defer q.Shutdown(logger); return err
              /\ IF ShutdownPanics
                 THEN panicked' = TRUE /\ connectRet' = "panic"
                      /\ UNCHANGED runLoop
                 ELSE runLoop' = AfterCancel(runLoop) /\ connectRet' = "err"
                      /\ UNCHANGED panicked
    /\ UNCHANGED <<topic, errorTopic, chanVars, procVars, budget, dlq, h>>

\* Connect: ConnectCustomRetry with 3 retries and 1000 * 2^retry
Connect == ConnectCustomRetry(DefaultMaxRetries, "exp")

ConnectCustom ==
    \E k \in 0..MaxRetriesBound, f \in CustomBackoffs : ConnectCustomRetry(k, f)

\* variant: a Shutdown that also ends the callbacks in flight
ShutdownAborting ==
    /\ ~panicked
    /\ IF ShutdownPanics
       THEN panicked' = TRUE /\ UNCHANGED <<runLoop, pc>>
       ELSE /\ runLoop' = AfterCancel(runLoop)
            /\ pc' = [p \in Parts |->
                      IF pc[p] = "idle" THEN "idle" ELSE "returned"]
            /\ UNCHANGED panicked
    /\ UNCHANGED <<topic, errorTopic, shutdown, connectRet, procErr,
                   shutdownRan, maxRetries, backoff, chanVars, msgNo, data,
                   retries, result, sendq, remaining, pub, budget, dlq, h>>

\* Shutdown(logger), called by the application
Shutdown ==
    /\ ~panicked
    /\ IF ShutdownPanics
       THEN panicked' = TRUE /\ UNCHANGED runLoop
       ELSE runLoop' = AfterCancel(runLoop) /\ UNCHANGED panicked
    /\ UNCHANGED <<topic, errorTopic, shutdown, connectRet, procErr,
                   shutdownRan, maxRetries, backoff, chanVars, procVars,
                   budget, dlq, h>>

(* ------------------------ channel primitives --------------------------- *)
\* result <- v on a channel of capacity cap: buffered when there is room,
\* otherwise the sender blocks in the send queue
ChanSendBuf(buf, q, cap, v) == IF Len(buf) < cap THEN Append(buf, v) ELSE buf
ChanSendQ(buf, q, cap, v) == IF Len(buf) < cap THEN q ELSE Append(q, v)

\* variant: a select that does not block on an empty channel
SelectReadyNonBlocking(buf, q) == TRUE

\* the select of the retry loop has the single case res := <-result
SelectReady(buf, q) == Len(buf) + Len(q) > 0

\* variant: every signal is read as a Nack
ReceivedAsNack(buf, q) ==
    IF buf \o q = <<>> THEN [val |-> FALSE, epoch |-> 0]
    ELSE [val |-> FALSE, epoch |-> Head(buf \o q).epoch]

\* the value a receive yields: the oldest signal (false without one)
Received(buf, q) ==
    IF buf \o q = <<>> THEN [val |-> FALSE, epoch |-> 0] ELSE Head(buf \o q)

\* the channel after the receive: a blocked sender moves into the buffer
RestOf(buf, q) == IF buf \o q = <<>> THEN <<>> ELSE Tail(buf \o q)
AfterRecvBuf(buf, q, cap) == SubSeq(RestOf(buf, q), 1, Min(cap, Len(RestOf(buf, q))))
AfterRecvQ(buf, q, cap) ==
    SubSeq(RestOf(buf, q), Min(cap, Len(RestOf(buf, q))) + 1, Len(RestOf(buf, q)))

(* --------------------- decisions of the retry loop --------------------- *)
\* variant: the comparison off by one
ExhaustedOffByOne(r, k) == r > k

\* if retries >= maxRetries
Exhausted(r, k) == r >= k

\* variant: a delay that grows with the records already dead-lettered
RetryDelayLoadDependent(f, r) == Backoff(f, r) + BagCardinality(dlq)

\* retryExpirationCalc(retries)
RetryDelay(f, r) == Backoff(f, r)

\* variant: a Nack within the retry budget returns to the transport
NackTargetReturnEarly(r, k) == IF r >= k THEN "newEmitter" ELSE "returned"

\* variant: a Nack within the retry budget waits for another outcome
\* without redelivering
NackTargetWaitAgain(r, k) == IF r >= k THEN "newEmitter" ELSE "await"

\* where a Nack sends the callback: dead-lettering or the backoff timer
NackTarget(r, k) == IF Exhausted(r, k) THEN "newEmitter" ELSE "sleep"

\* variant: a failed publish redelivers the message
EmitErrTargetRedeliver == "resend"

\* variant: a failed publish returns without releasing the emitter
EmitErrTargetNoRelease == "returned"

\* where a failed EmitSync sends the callback: the deferred pub.Finish()
EmitErrTarget == "finish"

(* ----------------------- the transport callback ------------------------ *)
\* the transport invokes the callback for the next message of partition p
\* once the previous invocation has returned; a cancelled run loop
\* dispatches nothing.  Lines 117-128: data, result, db.
StartCallback(p, d) ==
    /\ runLoop = "running"
    /\ pc[p] \in {"idle", "returned"}
    /\ msgNo[p] < logLen
    /\ msgNo' = [msgNo EXCEPT ![p] = @ + 1]
    /\ pc' = [pc EXCEPT ![p] = "send0"]
    /\ data' = [data EXCEPT ![p] = d]
    /\ retries' = [retries EXCEPT ![p] = 0]
    /\ result' = [result EXCEPT ![p] = <<>>]
    /\ sendq' = [sendq EXCEPT ![p] = <<>>]
    /\ remaining' = [remaining EXCEPT ![p] = 0]
    /\ pub' = [pub EXCEPT ![p] = "none"]
    /\ budget' = [budget EXCEPT ![p] = 0]
    /\ h' = [h EXCEPT ![p] = FreshHist(d)]
    /\ UNCHANGED <<recvVars, chanVars, dlq>>

\* calls a delivery lets the consumer make: one, and with the first
\* delivery of a message the extra calls of a misbehaving consumer
Grant(seen) == IF seen = 0 THEN 1 + extraCalls ELSE 1

\* output <- db: a rendezvous with the consumer on an unbuffered channel,
\* an append while there is room on a buffered one
OutputSend(p) ==
    IF outCap = 0
    THEN /\ budget' = [budget EXCEPT ![p] = @ + Grant(h[p].received)]
         /\ UNCHANGED output
    ELSE /\ Len(output) < outCap
         /\ output' = Append(output, <<p, msgNo[p]>>)
         /\ UNCHANGED budget

\* line 130: output <- db
FirstSend(p) ==
    /\ pc[p] = "send0"
    /\ OutputSend(p)
    /\ pc' = [pc EXCEPT ![p] = "init"]
    /\ h' = [h EXCEPT ![p].pushes = @ + 1,
                      ![p].received = IF outCap = 0 THEN @ + 1 ELSE @]
    /\ UNCHANGED <<recvVars, outCap, extraCalls, assigned, logLen, probe, msgNo, data, retries, result,
                   sendq, remaining, pub, dlq>>

\* line 132: retries := 0
InitRetries(p) ==
    /\ pc[p] = "init"
    /\ retries' = [retries EXCEPT ![p] = 0]
    /\ pc' = [pc EXCEPT ![p] = "await"]
    /\ UNCHANGED <<recvVars, chanVars, msgNo, data, result, sendq, remaining,
                   pub, budget, dlq, h>>

\* lines 135-166: res := <-result, then return on an Ack, go to the
\* dead-letter publish when the retries are used up, else start the timer
Await(p) ==
    /\ pc[p] = "await"
    /\ SelectReady(result[p], sendq[p])
    /\ LET res == Received(result[p], sendq[p])
           cap == ResultCap(maxRetries)
           old == res.epoch < h[p].pushes
           hc == [h[p] EXCEPT !.consumed = @ + 1,
                              !.stale = @ \/ old]
       IN /\ result' = [result EXCEPT ![p] = AfterRecvBuf(result[p], sendq[p], cap)]
          /\ sendq' = [sendq EXCEPT ![p] = AfterRecvQ(result[p], sendq[p], cap)]
          /\ IF res.val
             THEN /\ pc' = [pc EXCEPT ![p] = "returned"]
                  /\ h' = [h EXCEPT ![p] = [hc EXCEPT !.outcome = "Succeeded"]]
                  /\ UNCHANGED remaining
             ELSE IF NackTarget(retries[p], maxRetries) = "sleep"
             THEN /\ pc' = [pc EXCEPT ![p] = "sleep"]
                  /\ remaining' = [remaining EXCEPT ![p] =
                        TimerDuration(RetryDelay(backoff, retries[p]))]
                  /\ h' = [h EXCEPT ![p] =
                        [hc EXCEPT !.elapsed = 0,
                                   !.sleepLog = Append(@,
                                       [arg |-> retries[p],
                                        delay |-> RetryDelay(backoff, retries[p])])]]
             ELSE /\ pc' = [pc EXCEPT ![p] = NackTarget(retries[p], maxRetries)]
                  /\ h' = [h EXCEPT ![p] = hc]
                  /\ UNCHANGED remaining
    /\ UNCHANGED <<recvVars, chanVars, msgNo, data, retries, pub, budget, dlq>>

\* line 167: <-timer.C
TimerFire(p) ==
    /\ pc[p] = "sleep"
    /\ remaining[p] = 0
    /\ pc' = [pc EXCEPT ![p] = "resend"]
    /\ UNCHANGED <<recvVars, chanVars, msgNo, data, retries, result, sendq,
                   remaining, pub, budget, dlq, h>>

\* line 171: output <- db
Resend(p) ==
    /\ pc[p] = "resend"
    /\ OutputSend(p)
    /\ pc' = [pc EXCEPT ![p] = "inc"]
    /\ h' = [h EXCEPT ![p].pushes = @ + 1,
                      ![p].received = IF outCap = 0 THEN @ + 1 ELSE @]
    /\ UNCHANGED <<recvVars, outCap, extraCalls, assigned, logLen, probe, msgNo, data, retries, result,
                   sendq, remaining, pub, dlq>>

\* line 172: retries++
IncRetries(p) ==
    /\ pc[p] = "inc"
    /\ retries' = [retries EXCEPT ![p] = @ + 1]
    /\ pc' = [pc EXCEPT ![p] = "await"]
    /\ UNCHANGED <<recvVars, chanVars, msgNo, data, result, sendq, remaining,
                   pub, budget, dlq, h>>

\* lines 149-154: goka.NewEmitter succeeds (defer pub.Finish()) or fails
NewEmitter(p) ==
    /\ pc[p] = "newEmitter"
    /\ \E ok \in BOOLEAN :
         IF ok
         THEN /\ pub' = [pub EXCEPT ![p] = "open"]
              /\ pc' = [pc EXCEPT ![p] = "emit"]
              /\ h' = [h EXCEPT ![p].created = @ + 1]
         ELSE /\ pc' = [pc EXCEPT ![p] = "returned"]
              /\ h' = [h EXCEPT ![p].outcome = "Lost", ![p].pubRes = "newErr"]
              /\ UNCHANGED pub
    /\ UNCHANGED <<recvVars, chanVars, msgNo, data, retries, result, sendq,
                   remaining, budget, dlq>>

\* lines 155-161: pub.EmitSync("", data) succeeds or fails; either way the
\* function returns through the deferred pub.Finish()
EmitSync(p) ==
    /\ pc[p] = "emit"
    /\ \E ok \in BOOLEAN :
         IF ok
         THEN /\ dlq' = dlq (+) SetToBag({DeadLetterRecord(errorTopic, data[p])})
              /\ pc' = [pc EXCEPT ![p] = "finish"]
              /\ h' = [h EXCEPT ![p].emitTries = @ + 1,
                                ![p].outcome = "DeadLettered",
                                ![p].pubRes = "ok",
                                ![p].emitted = Append(@,
                                    DeadLetterRecord(errorTopic, data[p]))]
         ELSE /\ pc' = [pc EXCEPT ![p] = EmitErrTarget]
              /\ h' = [h EXCEPT ![p].emitTries = @ + 1,
                                ![p].outcome = "Lost",
                                ![p].pubRes = "emitErr"]
              /\ UNCHANGED dlq
    /\ UNCHANGED <<recvVars, chanVars, msgNo, data, retries, result, sendq,
                   remaining, pub, budget>>

\* line 154: the deferred pub.Finish() runs as the callback returns
Finish(p) ==
    /\ pc[p] = "finish"
    /\ pub' = [pub EXCEPT ![p] = "finished"]
    /\ pc' = [pc EXCEPT ![p] = "returned"]
    /\ h' = [h EXCEPT ![p].finished = @ + 1]
    /\ UNCHANGED <<recvVars, chanVars, msgNo, data, retries, result, sendq,
                   remaining, budget, dlq>>

\* time passes until the next timer expires; the stopwatch of a callback
\* runs from the Nack it consumed to the redelivery it pushes
Sleepers == {p \in Parts : pc[p] = "sleep" /\ remaining[p] > 0}

NextExpiry == CHOOSE d \in {remaining[p] : p \in Sleepers} :
                 \A p \in Sleepers : d <= remaining[p]

Tick ==
    /\ Sleepers # {}
    /\ remaining' = [p \in Parts |->
          IF p \in Sleepers THEN remaining[p] - NextExpiry ELSE remaining[p]]
    /\ h' = [p \in Parts |->
          IF pc[p] \in {"sleep", "resend"}
          THEN [h[p] EXCEPT !.elapsed = @ + NextExpiry] ELSE h[p]]
    /\ UNCHANGED <<recvVars, chanVars, msgNo, pc, data, retries, result,
                   sendq, pub, budget, dlq>>

(* ----------------------------- consumer -------------------------------- *)
\* the consumer takes a DataBlock from a buffered outbound channel; the
\* closures of a callback that has returned feed a channel nobody reads
ConsumerRecv ==
    /\ output # <<>>
    /\ LET p == Head(output)[1]
           n == Head(output)[2]
       IN /\ budget' = [budget EXCEPT ![p] =
                        IF n = msgNo[p] THEN @ + Grant(h[p].received) ELSE @]
          /\ h' = [h EXCEPT ![p].received = IF n = msgNo[p] THEN @ + 1 ELSE @]
    /\ output' = Tail(output)
    /\ UNCHANGED <<recvVars, outCap, extraCalls, assigned, logLen, probe, procVars, dlq>>

\* variant: one result channel shared by the callbacks of all partitions
ConsumerCallShared(p, v) ==
    /\ budget[p] > 0
    /\ \E q \in assigned :
         LET sig == [val |-> v, epoch |-> h[p].pushes]
             cap == ResultCap(maxRetries)
         IN /\ result' = [result EXCEPT ![q] = ChanSendBuf(@, sendq[q], cap, sig)]
            /\ sendq' = [sendq EXCEPT ![q] = ChanSendQ(result[q], @, cap, sig)]
    /\ budget' = [budget EXCEPT ![p] = @ - 1]
    /\ h' = [h EXCEPT ![p].acked = @ \/ v, ![p].answers = Append(@, v)]
    /\ UNCHANGED <<recvVars, chanVars, msgNo, pc, data, retries, remaining,
                   pub, dlq>>

\* lines 126-127: db.Ack() is result <- true, db.Nack() is result <- false
ConsumerCall(p, v) ==
    /\ budget[p] > 0
    /\ LET sig == [val |-> v, epoch |-> h[p].pushes]
           cap == ResultCap(maxRetries)
       IN /\ result' = [result EXCEPT ![p] = ChanSendBuf(@, sendq[p], cap, sig)]
          /\ sendq' = [sendq EXCEPT ![p] = ChanSendQ(result[p], @, cap, sig)]
    /\ budget' = [budget EXCEPT ![p] = @ - 1]
    /\ h' = [h EXCEPT ![p].acked = @ \/ v, ![p].answers = Append(@, v)]
    /\ UNCHANGED <<recvVars, chanVars, msgNo, pc, data, retries, remaining,
                   pub, dlq>>

\* the consumer drops the DataBlock it holds: it makes none of the calls
\* it could still make through it
ConsumerIgnore(p) ==
    /\ budget[p] > 0
    /\ budget' = [budget EXCEPT ![p] = 0]
    /\ h' = [h EXCEPT ![p].ignored = TRUE]
    /\ UNCHANGED <<recvVars, chanVars, procVars, dlq>>

(* ------------------------------- Next ---------------------------------- *)
Next ==
    \/ Connect
    \/ ConnectCustom
    \/ Shutdown
    \/ \E p \in assigned, d \in Payloads : StartCallback(p, d)
    \/ \E p \in assigned : FirstSend(p)
    \/ \E p \in assigned : InitRetries(p)
    \/ \E p \in assigned : Await(p)
    \/ \E p \in assigned : TimerFire(p)
    \/ \E p \in assigned : Resend(p)
    \/ \E p \in assigned : IncRetries(p)
    \/ \E p \in assigned : NewEmitter(p)
    \/ \E p \in assigned : EmitSync(p)
    \/ \E p \in assigned : Finish(p)
    \/ Tick
    \/ ConsumerRecv
    \/ \E p \in assigned, v \in BOOLEAN : ConsumerCall(p, v)
    \/ \E p \in assigned : ConsumerIgnore(p)

Spec == Init /\ [][Next]_vars

SpecAny == InitAny /\ [][Next]_vars

SpecPar == InitPar /\ [][Next]_vars

\* line 41 evaluated on probe.n and on probe.n + 1
EvalDefaultBackoff ==
    /\ ~probe.done
    /\ probe' = [probe EXCEPT !.done = TRUE,
                              !.delay = DefaultDelayBits(probe.n, probe.w),
                              !.next = DefaultDelayBits(probe.n + 1, probe.w)]
    /\ UNCHANGED <<recvVars, output, outCap, extraCalls, assigned, logLen,
                   procVars, budget, dlq, h>>

NextDefault == Next \/ EvalDefaultBackoff

SpecDefault == InitDefault /\ [][NextDefault]_vars

(* ------------------------- fair scheduling ----------------------------- *)
\* the steps of the callback goroutine of partition p
CallbackStep(p) ==
    \/ FirstSend(p)
    \/ InitRetries(p)
    \/ Await(p)
    \/ TimerFire(p)
    \/ Resend(p)
    \/ IncRetries(p)
    \/ NewEmitter(p)
    \/ EmitSync(p)
    \/ Finish(p)

\* a consumer that answers every delivery: it never drops a DataBlock
NextLive ==
    \/ Connect
    \/ ConnectCustom
    \/ Shutdown
    \/ \E p \in assigned, d \in Payloads : StartCallback(p, d)
    \/ \E p \in assigned : CallbackStep(p)
    \/ Tick
    \/ ConsumerRecv
    \/ \E p \in assigned, v \in BOOLEAN : ConsumerCall(p, v)

\* the Go scheduler runs every goroutine that can take a step, timers
\* expire, the calls on the emitter return, and the consumer receives
\* what is pushed and answers what it has received
Fairness ==
    /\ \A p \in Parts : WF_vars(CallbackStep(p))
    /\ \A p \in Parts : WF_vars(\E v \in BOOLEAN : ConsumerCall(p, v))
    /\ WF_vars(ConsumerRecv)
    /\ WF_vars(Tick)

SpecLive == Init /\ [][NextLive]_vars /\ Fairness

(* ------------------------------ claims --------------------------------- *)
Conforming == extraCalls = 0

Terminal == {"Succeeded", "DeadLettered", "Lost"}

\* C1: when every call the consumer makes for a message is a Nack and the
\* dead-letter publish does not fail, the callback returns DeadLettered
\* after exactly maxRetries+1 pushes, the dead-letter topic has received
\* one copy of the payload, a consumer that answers once per delivery has
\* received exactly maxRetries+1 deliveries, and with maxRetries = 0 there
\* was no backoff sleep.
C1_AlwaysNackDeadLetters ==
    \A p \in assigned :
        (pc[p] = "returned" /\ ~h[p].acked /\ h[p].outcome # "Lost") =>
            /\ h[p].outcome = "DeadLettered"
            /\ h[p].pushes = maxRetries + 1
            /\ h[p].emitted = <<[topic |-> errorTopic, key |-> "", value |-> h[p].orig]>>
            /\ BagIn([topic |-> errorTopic, key |-> "", value |-> h[p].orig], dlq)
            /\ Len(h[p].sleepLog) = maxRetries
            /\ h[p].consumed = maxRetries + 1
            /\ (Conforming => h[p].received = maxRetries + 1)

C1_Witness ==
    \E p \in assigned :
        /\ pc[p] = "returned" /\ ~h[p].acked /\ h[p].outcome = "DeadLettered"
        /\ Conforming /\ maxRetries >= 1 /\ h[p].received = maxRetries + 1

\* C2: when a consumer that calls once per delivery has Nacked attempts
\* 0..j-1 and Acked attempt j, then j <= maxRetries, exactly j+1 deliveries
\* were pushed, no emitter was created, nothing was published, and the
\* callback can only return Succeeded.
C2_AckAfterNacksSucceeds ==
    \A p \in assigned :
        (Conforming /\ h[p].acked) =>
            /\ h[p].pushes = Len(h[p].sleepLog) + 1
            /\ h[p].received = h[p].pushes
            /\ h[p].pushes <= maxRetries + 1
            /\ h[p].consumed =
                  IF pc[p] = "returned" THEN h[p].pushes ELSE h[p].pushes - 1
            /\ h[p].created = 0 /\ pub[p] = "none"
            /\ h[p].emitted = <<>> /\ h[p].emitTries = 0
            /\ pc[p] \in {"init", "inc", "await", "returned"}
            /\ (pc[p] = "returned" => h[p].outcome = "Succeeded")

C2_Witness ==
    \E p \in assigned :
        /\ Conforming /\ h[p].acked /\ retries[p] >= 1
        /\ pc[p] = "returned" /\ h[p].outcome = "Succeeded"

\* C3: a callback that has returned has reached a terminal outcome, it
\* returns only from consuming an Ack, from a failed emitter creation or
\* through the release of the emitter after the publish, and the transport
\* starts the next message of a partition (before which none of its Work
\* Items is pushed) only after that.
C3_ReturnOnlyWhenTerminal ==
    /\ [](\A p \in assigned :
            /\ pc[p] = "returned" => h[p].outcome \in Terminal
            /\ h[p].pushes > 0 => msgNo[p] > 0 /\ pc[p] # "idle")
    /\ [][\A p \in assigned :
            /\ (pc'[p] = "returned" /\ pc[p] # "returned") =>
                  /\ pc[p] \in {"await", "newEmitter", "finish"}
                  /\ h'[p].outcome \in Terminal
                  /\ pc[p] = "await" => h'[p].outcome = "Succeeded"
            /\ msgNo'[p] # msgNo[p] =>
                  /\ pc[p] \in {"idle", "returned"}
                  /\ pc[p] = "returned" => h[p].outcome \in Terminal
                  /\ h'[p].pushes = 0
            /\ (h'[p].pushes > h[p].pushes) =>
                  /\ msgNo'[p] = msgNo[p]
                  /\ h[p].outcome = "none"]_vars

C3_Witness ==
    \E p \in assigned :
        msgNo[p] = 2 /\ h[p].pushes >= 2 /\ pc[p] = "await"

\* C4: once the dead-letter publish has failed (emitter creation or
\* EmitSync), the message is Lost: the callback only releases the emitter
\* and returns, nothing was published, there was a single publish attempt
\* at most, maxRetries+1 deliveries were pushed and none is pushed later.
C4_PublishFailureDrops ==
    /\ [](\A p \in assigned :
            h[p].outcome = "Lost" =>
                /\ pc[p] \in {"finish", "returned"}
                /\ h[p].emitted = <<>>
                /\ h[p].emitTries <= 1 /\ h[p].created <= 1
                /\ h[p].pushes = maxRetries + 1
                /\ ~panicked)
    /\ [][\A p \in assigned :
            (h[p].outcome = "Lost" /\ msgNo'[p] = msgNo[p]) =>
                /\ h'[p].outcome = "Lost"
                /\ h'[p].pushes = h[p].pushes
                /\ h'[p].emitTries = h[p].emitTries
                /\ h'[p].emitted = <<>>
                /\ pc'[p] \in {"finish", "returned"}]_vars

C4_Witness ==
    \E p \in assigned :
        /\ h[p].outcome = "Lost" /\ h[p].emitTries = 1 /\ pc[p] = "returned"
        /\ maxRetries = 1 /\ ~h[p].acked /\ h[p].pushes = 2 /\ dlq = EmptyBag

\* C5: when processor creation failed in the last Connect call, Shutdown
\* was invoked, the caller got the connection error as the return value
\* and no run loop is running.
C5_ConnectFailureSurfaced ==
    procErr => (shutdownRan /\ connectRet = "err" /\ runLoop # "running")

\* C6: the retry loop never consumes, as the outcome of the current
\* delivery, a signal that was sent before that delivery was pushed.
C6_NoStaleSignal ==
    \A p \in assigned : ~h[p].stale

\* C7: for a consumer that calls at most once per delivery, the signals
\* sent and not yet consumed never exceed maxRetries+1 and no Ack or Nack
\* call is ever blocked on the outcome channel.
C7_CallNeverBlocks ==
    Conforming =>
        \A p \in assigned :
            /\ sendq[p] = <<>>
            /\ Len(result[p]) <= maxRetries + 1
            /\ h[p].consumed + Len(result[p]) <= maxRetries + 1

C7_Witness ==
    \E p \in assigned :
        Conforming /\ Len(result[p]) = 1 /\ pc[p] = "inc" /\ sendq[p] = <<>>

\* C8: the i-th sleep of a message was computed by the backoff function
\* from the attempt count i-1, every redelivery is preceded by a sleep, and
\* a redelivery is pushed only when at least that delay has elapsed since
\* the Nack was consumed.
C8_BackoffBeforeRedelivery ==
    \A p \in assigned :
        /\ \A i \in 1..Len(h[p].sleepLog) :
              /\ h[p].sleepLog[i].arg = i - 1
              /\ h[p].sleepLog[i].delay = Backoff(backoff, i - 1)
        /\ h[p].pushes <= Len(h[p].sleepLog) + 1
        /\ pc[p] \in {"sleep", "resend"} => h[p].pushes = Len(h[p].sleepLog)
        /\ pc[p] \in {"resend", "inc"} =>
              /\ Len(h[p].sleepLog) = retries[p] + 1
              /\ h[p].elapsed >= Backoff(backoff, retries[p])

C8_Witness ==
    \E p \in assigned :
        /\ pc[p] = "inc" /\ retries[p] = 1 /\ backoff # "zero"
        /\ h[p].elapsed >= Backoff(backoff, 1) /\ h[p].pushes = 3

\* C9: every record of the dead-letter topic went to <topic>.errors with
\* an empty key and the payload the transport delivered, and a message
\* gets one record at most, after its retries were exhausted.
C9_DeadLetterRecordShape ==
    /\ \A r \in BagToSet(dlq) :
          /\ r.topic = topic \o ".errors"
          /\ r.key = ""
          /\ r.value \in Payloads
    /\ \A p \in assigned :
          /\ Len(h[p].emitted) <= 1
          /\ \A i \in 1..Len(h[p].emitted) :
                /\ h[p].emitted[i] =
                     [topic |-> topic \o ".errors", key |-> "", value |-> h[p].orig]
                /\ BagIn(h[p].emitted[i], dlq)
                /\ retries[p] = maxRetries
                /\ h[p].consumed = maxRetries + 1

C9_Witness ==
    \E p \in assigned :
        /\ msgNo[p] = 2 /\ Len(h[p].emitted) = 1 /\ BagCardinality(dlq) = 2
        /\ Cardinality(BagToSet(dlq)) = 2

\* C10: once a consumer that calls at most once per delivery has dropped a
\* delivery without calling Ack or Nack, the callback reaches the wait on
\* the outcome channel and stays there: no signal, no redelivery, no
\* publish and no later message of the partition.
C10_IgnoredItemStalls ==
    /\ [](\A p \in assigned :
            (Conforming /\ h[p].ignored) =>
                /\ pc[p] \in {"init", "inc", "await"}
                /\ result[p] = <<>> /\ sendq[p] = <<>>
                /\ budget[p] = 0)
    /\ [][\A p \in assigned :
            (Conforming /\ h[p].ignored) =>
                /\ h'[p].ignored
                /\ msgNo'[p] = msgNo[p]
                /\ h'[p].pushes = h[p].pushes
                /\ h'[p].emitTries = h[p].emitTries
                /\ h'[p].created = h[p].created
                /\ remaining'[p] = remaining[p]
                /\ pc[p] = "await" => pc'[p] = "await"]_vars

C10_Witness ==
    \E p \in assigned :
        /\ Conforming /\ h[p].ignored /\ pc[p] = "await" /\ retries[p] >= 1
        /\ runLoop = "cancelled"

\* C11: a step in which Shutdown cancels the run loop (or panics) changes
\* nothing of any in-flight message: position, attempt count, pending
\* signals, timer, emitter, outbound channel and history stay as they
\* were; and with the run loop cancelled a callback that sleeps stays
\* asleep until its timer expires, one that awaits an outcome stays there
\* until a signal exists, one whose outbound send is blocked stays blocked.
C11_ShutdownLeavesCallbacks ==
    /\ [][((runLoop = "running" /\ runLoop' = "cancelled")
              \/ (panicked' /\ ~panicked)) =>
            UNCHANGED <<procVars, chanVars, budget, dlq, h>>]_vars
    /\ [][\A p \in Parts :
            runLoop = "cancelled" =>
                /\ (pc[p] = "sleep" /\ remaining[p] > 0) => pc'[p] = "sleep"
                /\ (pc[p] = "await" /\ result[p] = <<>> /\ sendq[p] = <<>>) =>
                      pc'[p] = "await"
                /\ (pc[p] \in {"send0", "resend"} /\ outCap > 0
                                                 /\ Len(output) = outCap) =>
                      pc'[p] = pc[p]
                /\ (pc[p] # "returned" /\ pc'[p] = "returned") =>
                      h'[p].outcome \in Terminal]_vars

C11_Witness ==
    \E p \in assigned :
        /\ runLoop = "cancelled" /\ pc[p] = "resend" /\ retries[p] = 0
        /\ h[p].elapsed > 0 /\ maxRetries >= 1

\* the run of the retry state machine as a function of its inputs: the
\* plan gives the consumer's answer to each attempt (TRUE an Ack), r the
\* result of the dead-letter publish
PlanDeliveries(k, plan) ==
    IF \E i \in 1..(k + 1) : plan[i]
    THEN CHOOSE i \in 1..(k + 1) : plan[i] /\ \A j \in 1..(i - 1) : ~plan[j]
    ELSE k + 1

PlanSleeps(k, f, plan) ==
    [i \in 1..(PlanDeliveries(k, plan) - 1) |-> Backoff(f, i - 1)]

PlanOutcome(k, plan, r) ==
    IF plan[PlanDeliveries(k, plan)] THEN "Succeeded"
    ELSE IF r = "ok" THEN "DeadLettered" ELSE "Lost"

\* the returned callback of partition p ran as the function above says,
\* for every plan that agrees with the answers the consumer gave
RunsAsPlanned(p) ==
        (Conforming /\ pc[p] = "returned") =>
            /\ Len(h[p].answers) <= maxRetries + 1
            /\ \A plan \in [1..(maxRetries + 1) -> BOOLEAN] :
                  (\A i \in 1..Len(h[p].answers) : plan[i] = h[p].answers[i]) =>
                     /\ h[p].pushes = PlanDeliveries(maxRetries, plan)
                     /\ h[p].received = PlanDeliveries(maxRetries, plan)
                     /\ Len(h[p].answers) = PlanDeliveries(maxRetries, plan)
                     /\ [i \in 1..Len(h[p].sleepLog) |-> h[p].sleepLog[i].delay]
                           = PlanSleeps(maxRetries, backoff, plan)
                     /\ h[p].outcome = PlanOutcome(maxRetries, plan, h[p].pubRes)
                     /\ h[p].emitted =
                           IF h[p].outcome = "DeadLettered"
                           THEN <<DeadLetterRecord(errorTopic, h[p].orig)>>
                           ELSE <<>>

\* C12: with a consumer that answers once per delivery, the deliveries,
\* the backoff delays and the outcome of a returned callback are those
\* the function above gives for maxRetries, the backoff function, the
\* publish result and any plan of answers that agrees with the answers
\* the consumer gave: two runs on the same inputs cannot differ.
C12_Deterministic ==
    \A p \in assigned : RunsAsPlanned(p)

C12_Witness ==
    \E p \in assigned :
        /\ Conforming /\ pc[p] = "returned" /\ msgNo[p] = 2
        /\ h[p].answers = <<FALSE, FALSE>> /\ h[p].pubRes = "ok"
        /\ backoff = "lin" /\ BagCardinality(dlq) = 2

\* C14: an emitter exists only between its creation and the return of the
\* callback: it is open only while the publish or the pending release is
\* the next step, a returned callback has released every emitter it
\* created exactly once (whether EmitSync succeeded or failed), one is
\* created at most, a failed creation leaves none open and releases none,
\* and an emitter is created only after maxRetries+1 outcomes were
\* consumed with the retries used up, never on a path that ends in an Ack
\* or continues with a redelivery.
C14_EmitterReleasedOnce ==
    \A p \in assigned :
        /\ h[p].created <= 1 /\ h[p].finished <= h[p].created
        /\ pub[p] = "open" <=> pc[p] \in {"emit", "finish"}
        /\ pub[p] = "open" => (h[p].created = 1 /\ h[p].finished = 0)
        /\ pub[p] = "finished" => (h[p].created = 1 /\ h[p].finished = 1)
        /\ pub[p] = "none" => (h[p].created = 0 /\ h[p].finished = 0)
        /\ pc[p] = "returned" => h[p].finished = h[p].created
        /\ h[p].pubRes = "newErr" =>
              (pub[p] = "none" /\ h[p].created = 0 /\ h[p].emitTries = 0)
        /\ h[p].pubRes \in {"ok", "emitErr"} =>
              (h[p].created = 1 /\ h[p].emitTries = 1)
        /\ h[p].created = 1 =>
              /\ pc[p] \in {"emit", "finish", "returned"}
              /\ retries[p] = maxRetries /\ h[p].consumed = maxRetries + 1
              /\ h[p].outcome # "Succeeded"
        /\ (h[p].outcome = "Succeeded"
              \/ pc[p] \in {"send0", "init", "await", "sleep", "resend", "inc"}) =>
              h[p].created = 0

C14_Witness ==
    \E p \in assigned :
        /\ pc[p] = "returned" /\ h[p].pubRes = "emitErr" /\ pub[p] = "finished"
        /\ h[p].created = 1 /\ h[p].finished = 1 /\ maxRetries = 1

\* the invariants of one callback that hold whatever the consumer does:
\* the attempt count stays within 0..maxRetries, at most maxRetries+1 Work
\* Items are pushed, one publish is attempted at most and only after a
\* Nack was consumed with the attempt count at maxRetries, and nothing is
\* pushed or published after an Ack was consumed or a publish attempted
CallbackBounds(p) ==
    /\ retries[p] \in 0..maxRetries
    /\ h[p].pushes <= maxRetries + 1
    /\ h[p].emitTries <= 1 /\ h[p].created <= 1
    /\ (h[p].emitTries > 0 \/ h[p].created > 0 \/ pc[p] = "newEmitter") =>
          /\ retries[p] = maxRetries
          /\ h[p].consumed >= 1
          /\ h[p].outcome # "Succeeded"
    /\ h[p].outcome = "Succeeded" =>
          (pc[p] = "returned" /\ h[p].emitTries = 0 /\ h[p].emitted = <<>>)
    /\ (h[p].emitTries > 0 \/ h[p].outcome # "none") =>
          pc[p] \in {"finish", "returned"}

CallbackFrozen ==
    [][\A p \in assigned :
         (msgNo'[p] = msgNo[p] /\ (h[p].outcome # "none" \/ h[p].emitTries > 0)) =>
             /\ h'[p].pushes = h[p].pushes
             /\ h'[p].emitTries = h[p].emitTries
             /\ h'[p].emitted = h[p].emitted
             /\ retries'[p] = retries[p]]_vars

\* C16 as stated: the invariants above hold in every reachable state and,
\* once the first Work Item is pushed, the number pushed is the attempt
\* count plus one.
C16_PushesAreRetriesPlusOne ==
    \A p \in assigned :
        /\ CallbackBounds(p)
        /\ h[p].pushes > 0 => h[p].pushes = retries[p] + 1

\* C16, amended: the invariants above hold in every reachable state for
\* any consumer, and the number of Work Items pushed is the attempt count
\* plus one except between the redelivery push of line 171 and the
\* increment of line 172, where it is the attempt count plus two.
C16_CallbackInvariants ==
    /\ [](\A p \in assigned :
            /\ CallbackBounds(p)
            /\ h[p].pushes > 0 =>
                  h[p].pushes = IF pc[p] = "inc" THEN retries[p] + 2
                                ELSE retries[p] + 1)
    /\ CallbackFrozen

C16_Witness ==
    \E p \in assigned :
        /\ ~Conforming /\ h[p].stale /\ pc[p] = "inc"
        /\ h[p].pushes = retries[p] + 2 /\ h[p].pushes = maxRetries + 1

\* C18: in every sequence of NewKafkaReceiver, Connect / ConnectCustomRetry
\* and Shutdown calls, Shutdown (called by the application or deferred by
\* a failed connect) never invokes a nil cancellation function: no call
\* of q.shutdown() has panicked.
C18_ShutdownNeverNil ==
    ~panicked /\ connectRet # "panic"

\* C17: with a consumer that receives every pushed Work Item and answers
\* each with one Ack or Nack, timers that expire and emitter calls that
\* return, under fair scheduling every callback that was started
\* eventually returns, in one of Succeeded, DeadLettered and Lost, having
\* pushed at most maxRetries+1 deliveries, all of them received.
C17_EveryCallbackReturns ==
    \A p \in Parts :
        (pc[p] \notin {"idle", "returned"}) ~>
            (/\ pc[p] = "returned"
             /\ h[p].outcome \in Terminal
             /\ h[p].pushes <= maxRetries + 1
             /\ h[p].received = h[p].pushes)

C17_Witness ==
    \E p \in assigned :
        /\ pc[p] = "returned" /\ h[p].outcome = "Lost" /\ msgNo[p] = 2
        /\ h[p].received = maxRetries + 1 /\ maxRetries = DefaultMaxRetries
        /\ runLoop = "cancelled" /\ outCap = 1

\* C15: with both partitions assigned and a consumer that answers once
\* per delivery, an Ack or Nack through the Work Item of one message
\* adds a signal to that message's channel and changes nothing of the
\* other partition's callback; a step of one callback changes nothing of
\* the other; and the deliveries and the outcome of every returned
\* callback are those of the message processed alone.
C15_PartitionsIndependent ==
    /\ [](\A p \in Parts : RunsAsPlanned(p))
    /\ [][\A p \in Parts : \A q \in Parts \ {p} :
            (h'[p].answers # h[p].answers \/ pc'[p] # pc[p]) =>
                /\ pc'[q] = pc[q] /\ retries'[q] = retries[q]
                /\ result'[q] = result[q] /\ sendq'[q] = sendq[q]
                /\ remaining'[q] = remaining[q] /\ pub'[q] = pub[q]
                /\ budget'[q] = budget[q] /\ msgNo'[q] = msgNo[q]
                /\ data'[q] = data[q] /\ h'[q] = h[q]]_vars
    /\ [][\A p \in Parts :
            (h'[p].answers # h[p].answers /\ msgNo'[p] = msgNo[p]) =>
                /\ Len(result'[p]) + Len(sendq'[p])
                      = Len(result[p]) + Len(sendq[p]) + 1
                /\ pc'[p] = pc[p] /\ retries'[p] = retries[p]]_vars

C15_Witness ==
    \E p \in Parts : \E q \in Parts \ {p} :
        /\ assigned = Parts /\ Conforming
        /\ pc[p] = "await" /\ Len(result[p]) = 1 /\ h[p].acked
        /\ pc[q] = "sleep" /\ remaining[q] > 0 /\ h[q].consumed = 1
        /\ outCap = 1

\* what Connect gives the retry loop, and the run of a message that a
\* consumer answering once per delivery always Nacks under it: four
\* deliveries, sleeps of 1000, 2000 and 4000 ms before the second, third
\* and fourth, then the dead-letter publish
ConnectDefaultRun ==
    /\ backoff = "exp" => maxRetries = 3
    /\ \A n \in 0..3 : Backoff("exp", n) = 1000 * 2 ^ n
    /\ \A p \in assigned :
          (backoff = "exp" /\ Conforming /\ pc[p] = "returned" /\ ~h[p].acked) =>
              /\ h[p].pushes = 4 /\ h[p].received = 4
              /\ [i \in 1..Len(h[p].sleepLog) |-> h[p].sleepLog[i].delay]
                    = <<1000, 2000, 4000>>
              /\ h[p].outcome \in {"DeadLettered", "Lost"}
              /\ h[p].pubRes = "ok" =>
                    /\ h[p].outcome = "DeadLettered"
                    /\ BagIn(DeadLetterRecord(errorTopic, h[p].orig), dlq)

====
